---- MODULE Spec2Model ----
(***************************************************************************)
(* Model of search_kernels_handler (src/src/main.py) and of the Memory     *)
(* documents of src/src/data.py.                                           *)
(*                                                                         *)
(* One behaviour is one run of the handler against a history file          *)
(* memory.json that earlier runs may have left behind.  The handler is cut *)
(* into steps at the places where a KeyboardInterrupt (raised between two  *)
(* bytecodes of the main thread) gives a different outcome.                *)
(***************************************************************************)
EXTENDS Integers, Sequences, FiniteSets, TLC

\* ---------------------------------------------------------------- bounds
MaxPages == 2      \* the search client has results for at most this many pages
ShortLen == 2      \* length of the short (last) pages the client returns
MaxNulls == 1      \* null items sit among the first MaxNulls items of a page
MaxPrior == 2      \* records left in memory.json by earlier runs

\* ------------------------------------------------------ program constants
page_size == 100
fields == <<"ref", "title", "author", "lastRunTime", "totalVotes">>

\* ------------------------------------------------------------ data model
\* data.SearchRecord: three required fields, amount defaults to 0
RequiredFields == {"search_str", "datetime", "file_name"}

SearchRecord(s, d, f, a) ==
    [search_str |-> s, datetime |-> d, file_name |-> f, amount |-> a]

\* data.Memory(): kernels = KernelSearch(), search = []
Memory == <<>>

\* ------------------------------------------- memory.json as written text
\* The text of memory.json is a sequence of chunks, the pieces json.dump
\* hands to f.write one after the other.
LBRACE   == [t |-> "{"]
KERNELS  == [t |-> "\"kernels\": {"]
SEARCH   == [t |-> "\"search\": ["]
RBRACKET == [t |-> "]"]
RBRACE   == [t |-> "}"]
SPACE    == [t |-> " "]
GARBAGE  == [t |-> "not json"]
RecChunk(r) == [t |-> "record", v |-> r]

RECURSIVE RecChunks(_)
RecChunks(search) ==
    IF search = <<>> THEN <<>>
    ELSE <<RecChunk(Head(search))>> \o RecChunks(Tail(search))

\* json.dump(memory.model_dump(), f, indent=4): the chunks of the document
Dump(mem) ==
    <<LBRACE, KERNELS, SEARCH>> \o RecChunks(mem) \o <<RBRACKET, RBRACE, RBRACE>>

\* str.strip(): leading and trailing whitespace removed
RECURSIVE LStrip(_)
LStrip(s) == IF s # <<>> /\ Head(s) = SPACE THEN LStrip(Tail(s)) ELSE s

RECURSIVE RStrip(_)
RStrip(s) ==
    IF s # <<>> /\ s[Len(s)] = SPACE THEN RStrip(SubSeq(s, 1, Len(s) - 1)) ELSE s

Strip(s) == RStrip(LStrip(s))

\* SearchRecord validation: required fields present, amount defaulted
ValidRecChunk(c) == c.t = "record" /\ RequiredFields \subseteq DOMAIN c.v

ValidateRecord(v) ==
    SearchRecord(v.search_str, v.datetime, v.file_name,
                 IF "amount" \in DOMAIN v THEN v.amount ELSE 0)

\* lines 50-53 replaced by a silent repair: what does not parse is taken
\* for an empty Memory
ParseRepairing(content) ==
    IF /\ Len(content) >= 6
       /\ SubSeq(content, 1, 3) = <<LBRACE, KERNELS, SEARCH>>
       /\ SubSeq(content, Len(content) - 2, Len(content)) = <<RBRACKET, RBRACE, RBRACE>>
       /\ \A i \in 4..(Len(content) - 3) : ValidRecChunk(content[i])
    THEN [ok |-> TRUE,
          search |-> [i \in 1..(Len(content) - 6) |-> ValidateRecord(content[i + 3].v)]]
    ELSE [ok |-> TRUE, search |-> <<>>]

\* data.Memory.model_validate(json.loads(content))
\*   {}                                  -> kernels defaulted
\*   {"kernels": {}}                     -> search defaulted
\*   {"kernels": {"search": [r, ...]}}   -> the records
Parse(content) ==
    LET n == Len(content) IN
    IF content = <<LBRACE, RBRACE>> THEN [ok |-> TRUE, search |-> <<>>]
    ELSE IF content = <<LBRACE, KERNELS, RBRACE, RBRACE>>
         THEN [ok |-> TRUE, search |-> <<>>]
    ELSE IF /\ n >= 6
            /\ SubSeq(content, 1, 3) = <<LBRACE, KERNELS, SEARCH>>
            /\ SubSeq(content, n - 2, n) = <<RBRACKET, RBRACE, RBRACE>>
            /\ \A i \in 4..(n - 3) : ValidRecChunk(content[i])
         THEN [ok |-> TRUE,
               search |-> [i \in 1..(n - 6) |-> ValidateRecord(content[i + 3].v)]]
    ELSE [ok |-> FALSE, search |-> <<>>]

\* ------------------------------------------------------- the search client
None == "None"
Kernel == "kernel"

\* a page of n items whose null items are the positions in nulls
MkPage(n, nulls) == [i \in 1..n |-> IF i \in nulls THEN None ELSE Kernel]

PageLens == {0, 1, ShortLen, page_size - 1, page_size}

Pages == {MkPage(n, nulls) : n \in PageLens, nulls \in SUBSET (1..MaxNulls)}

RECURSIVE NonNull(_)
NonNull(p) ==
    IF p = <<>> THEN 0
    ELSE (IF Head(p) # None THEN 1 ELSE 0) + NonNull(Tail(p))

\* ----------------------------------------- what earlier runs left behind
PriorRecord(i) == SearchRecord("term", i, i, i - 1)

PriorHistory(n) == [i \in 1..n |-> PriorRecord(i)]

Absent == [exists |-> FALSE, text |-> <<>>]
File(text) == [exists |-> TRUE, text |-> text]

InitFiles ==
    {Absent, File(<<>>), File(<<SPACE>>), File(<<GARBAGE>>),
     File(<<LBRACE, RBRACE>>), File(<<LBRACE, KERNELS, RBRACE, RBRACE>>),
     File(<<LBRACE, KERNELS, SEARCH,
            RecChunk([search_str |-> "term", datetime |-> 1, file_name |-> 1]),
            RBRACKET, RBRACE, RBRACE>>),
     File(<<LBRACE, KERNELS, SEARCH,
            RecChunk([search_str |-> "term", datetime |-> 1, amount |-> 0]),
            RBRACKET, RBRACE, RBRACE>>)}
    \cup {File(Dump(PriorHistory(n))) : n \in 0..MaxPrior}
    \cup {File(<<SPACE>> \o Dump(PriorHistory(1)) \o <<SPACE>>)}
    \cup {File(<<LBRACE, KERNELS, SEARCH>>)}

VARIABLES
    pc,             \* position of the handler
    memory_json,    \* the file memory.json: [exists, text]
    memory,         \* memory.kernels.search of the in-process Memory
    output_file,    \* the CSV file: [exists, lines]
    out_open,       \* the CSV file object is open
    results,        \* the page returned by the last api.kernels_list
    idx,            \* position of the for loop in results
    page,
    header_written,
    total_rows,
    wq,             \* chunks json.dump still has to write
    clock,          \* datetime.now()
    exit_code,      \* -1 while the process runs
    loaded,         \* history: kernels history the run started from
    calls,          \* history: page numbers passed to api.kernels_list
    nonnull,        \* history: non-null items over the pages fetched
    sleeps,         \* history: pacing sleeps taken
    interrupts,     \* history: KeyboardInterrupts raised in the run
    appended,       \* history: records appended to memory by the run
    writes,         \* history: times memory.json was opened for writing
    partial,        \* history: an interrupt landed inside a page's row loop
    file0,          \* history: memory.json as the run found it
    fetch_failed    \* history: api.kernels_list raised an error

vars == <<pc, memory_json, memory, output_file, out_open, results, idx, page,
          header_written, total_rows, wq, clock, exit_code, loaded, calls,
          nonnull, sleeps, interrupts, appended, writes, partial, file0,
          fetch_failed>>

fileVars == <<memory_json, wq, writes>>
csvVars  == <<output_file, out_open>>
loopVars == <<results, idx, page, header_written, total_rows>>
histVars == <<loaded, calls, nonnull, sleeps, interrupts, appended, partial,
              file0, fetch_failed>>

Init ==
    /\ pc = "load"
    /\ memory_json \in InitFiles
    /\ memory = Memory
    /\ output_file = [exists |-> FALSE, lines |-> <<>>]
    /\ out_open = FALSE
    /\ results = <<>>
    /\ idx = 0
    /\ page = 1
    /\ header_written = FALSE
    /\ total_rows = 0
    /\ wq = <<>>
    /\ clock = MaxPrior + 1
    /\ exit_code = -1
    /\ loaded = <<>>
    /\ calls = <<>>
    /\ nonnull = 0
    /\ sleeps = 0
    /\ interrupts = 0
    /\ appended = <<>>
    /\ writes = 0
    /\ partial = FALSE
    /\ file0 = memory_json
    /\ fetch_failed = FALSE

\* output_file.name: kernels-<datetime.now()>.csv, taken when the run starts
output_name == MaxPrior + 1

\* ------------------------------------------------- lines 38-58: load memory
\* if memory_json_path.exists(): read, strip, validate; a missing or empty
\* file makes a new Memory that is then written out
LoadMemory ==
    /\ pc = "load"
    /\ LET content == Strip(memory_json.text)
           doc == Parse(content)
       IN IF memory_json.exists /\ content # <<>>
          THEN IF doc.ok
               THEN /\ memory' = doc.search
                    /\ loaded' = doc.search
                    /\ pc' = "init_vars"
                    /\ exit_code' = exit_code
               ELSE \* raise ValueError("Invalid JSON in memory file ...")
                    /\ pc' = "done"
                    /\ exit_code' = 1
                    /\ UNCHANGED <<memory, loaded>>
          ELSE /\ memory' = Memory
               /\ loaded' = Memory
               /\ pc' = "boot_open"
               /\ exit_code' = exit_code
    /\ UNCHANGED <<fileVars, csvVars, loopVars, clock, calls, nonnull, sleeps,
                   interrupts, appended, partial,
                   file0, fetch_failed>>

\* open(memory_json_path, "a"): the old text is kept in front of the new
OpenWAppend(from, to) ==
    /\ pc = from
    /\ pc' = to
    /\ memory_json' = File(memory_json.text)
    /\ wq' = Dump(memory)
    /\ writes' = writes + 1

\* open(memory_json_path, "w"): the file is created or truncated at once
OpenW(from, to) ==
    /\ pc = from
    /\ pc' = to
    /\ memory_json' = File(<<>>)
    /\ wq' = Dump(memory)
    /\ writes' = writes + 1

\* json.dump: one f.write per chunk; the with statement closes the file and
\* what was written so far is what the file holds
WriteChunk(from, to) ==
    /\ pc = from
    /\ wq # <<>>
    /\ memory_json' = File(memory_json.text \o <<Head(wq)>>)
    /\ wq' = Tail(wq)
    /\ pc' = IF Tail(wq) = <<>> THEN to ELSE from
    /\ writes' = writes

\* lines 47 and 56
BootOpen ==
    /\ OpenW("boot_open", "boot_dump")
    /\ UNCHANGED <<memory, csvVars, loopVars, clock, exit_code, histVars>>

\* lines 48 and 57
BootDump ==
    /\ WriteChunk("boot_dump", "init_vars")
    /\ UNCHANGED <<memory, csvVars, loopVars, clock, exit_code, histVars>>

\* lines 60-66: page = 1 ... total_rows = 0, then the try block is entered
InitVars ==
    /\ pc = "init_vars"
    /\ pc' = "open_out"
    /\ page' = 1
    /\ header_written' = FALSE
    /\ total_rows' = 0
    /\ UNCHANGED <<fileVars, memory, csvVars, results, idx, clock, exit_code,
                   histVars>>

\* ------------------------------------------------ lines 67-107: fetch loop
\* line 67: open(output_file, "w")
OpenOutput ==
    /\ pc = "open_out"
    /\ pc' = "fetch"
    /\ output_file' = [exists |-> TRUE, lines |-> <<>>]
    /\ out_open' = TRUE
    /\ UNCHANGED <<fileVars, memory, loopVars, clock, exit_code, histVars>>

\* lines 71-76: results = api.kernels_list(page=page, page_size=page_size)
Fetch ==
    /\ pc = "fetch"
    /\ page <= MaxPages
    /\ \E p \in Pages :
          /\ Len(p) <= page_size
          /\ page = MaxPages => Len(p) < page_size
          /\ results' = p
          /\ nonnull' = nonnull + NonNull(p)
    /\ calls' = Append(calls, page)
    /\ pc' = "got"
    /\ UNCHANGED <<fileVars, memory, csvVars, idx, page, header_written,
                   total_rows, clock, exit_code, loaded, sleeps, interrupts,
                   appended, partial,
                   file0, fetch_failed>>

\* line 122 written as a catch-all: every exception enters the except clause
CatchesAll(exc) == TRUE

\* line 122: except KeyboardInterrupt
Catches(exc) == exc = "KeyboardInterrupt"

\* api.kernels_list raises: the with statement closes the CSV file and the
\* exception leaves the handler, except KeyboardInterrupt does not match it
FetchFails ==
    /\ pc = "fetch"
    /\ calls' = Append(calls, page)
    /\ fetch_failed' = TRUE
    /\ out_open' = FALSE
    /\ IF Catches("TransportError")
       THEN pc' = "h_check" /\ exit_code' = exit_code
       ELSE pc' = "done" /\ exit_code' = 1
    /\ UNCHANGED <<fileVars, memory, output_file, loopVars, clock, loaded,
                   nonnull, sleeps, interrupts, appended, partial, file0>>

\* line 78 testing the rows instead of the items: a page of null items only
\* is taken for an empty one
IsEmptyNoRows(res) == NonNull(res) = 0

\* line 78: if not results
IsEmpty(res) == res = <<>>

\* lines 78-79: break; leaving the with statement closes the CSV file
BreakEmpty ==
    /\ pc = "got"
    /\ IsEmpty(results)
    /\ pc' = "record"
    /\ out_open' = FALSE
    /\ UNCHANGED <<fileVars, memory, output_file, loopVars, clock, exit_code,
                   histVars>>

\* lines 82-84: writer.writerow(fields) the first time only
WriteHeader ==
    /\ pc = "got"
    /\ ~IsEmpty(results)
    /\ IF ~header_written
       THEN output_file' = [output_file EXCEPT !.lines = Append(@, "header")]
       ELSE output_file' = output_file
    /\ header_written' = TRUE
    /\ idx' = 1
    /\ pc' = "rows"
    /\ UNCHANGED <<fileVars, memory, out_open, results, page, total_rows,
                   clock, exit_code, histVars>>

\* line 88 without the test: null items are written like the others
IsNoneNever(kernel) == FALSE

\* line 88: if kernel is None
IsNone(kernel) == kernel = None

\* lines 88-89: continue
SkipNone ==
    /\ pc = "rows"
    /\ idx <= Len(results)
    /\ IsNone(results[idx])
    /\ idx' = idx + 1
    /\ UNCHANGED <<pc, fileVars, memory, csvVars, results, page,
                   header_written, total_rows, clock, exit_code, histVars>>

\* lines 90-96: writer.writerow(row)
WriteRow ==
    /\ pc = "rows"
    /\ idx <= Len(results)
    /\ ~IsNone(results[idx])
    /\ output_file' = [output_file EXCEPT !.lines = Append(@, "row")]
    /\ pc' = "count"
    /\ UNCHANGED <<fileVars, memory, out_open, loopVars, clock, exit_code,
                   histVars>>

\* line 97: total_rows += 1
CountRow ==
    /\ pc = "count"
    /\ total_rows' = total_rows + 1
    /\ idx' = idx + 1
    /\ pc' = "rows"
    /\ UNCHANGED <<fileVars, memory, csvVars, results, page, header_written,
                   clock, exit_code, histVars>>

\* line 102 left out: no page is taken for the last one
IsLastPageNever(res) == FALSE

\* line 102 off by one: a page one item short is taken for a full one
IsLastPageOffByOne(res) == Len(res) < page_size - 1

\* line 102: if len(results) < page_size
IsLastPage(res) == Len(res) < page_size

\* lines 99-103: the page is done and it was the last one: break
BreakLast ==
    /\ pc = "rows"
    /\ idx > Len(results)
    /\ IsLastPage(results)
    /\ pc' = "record"
    /\ out_open' = FALSE
    /\ UNCHANGED <<fileVars, memory, output_file, loopVars, clock, exit_code,
                   histVars>>

\* lines 99-105: the page is done and full: page += 1
NextPage ==
    /\ pc = "rows"
    /\ idx > Len(results)
    /\ ~IsLastPage(results)
    /\ page' = page + 1
    /\ pc' = "sleep"
    /\ UNCHANGED <<fileVars, memory, csvVars, results, idx, header_written,
                   total_rows, clock, exit_code, histVars>>

\* line 107: sleep(random.uniform(0.5, 1.5))
Pace ==
    /\ pc = "sleep"
    /\ sleeps' = sleeps + 1
    /\ pc' = "fetch"
    /\ UNCHANGED <<fileVars, memory, csvVars, loopVars, clock, exit_code,
                   loaded, calls, nonnull, interrupts, appended, partial,
                   file0, fetch_failed>>

\* ------------------------------------------- lines 109-121: completion path
\* data.SearchRecord(search_str, datetime.now().isoformat(), name, total_rows)
NewRecord == SearchRecord("term", clock, output_name, total_rows)

\* lines 109-118: memory.kernels.search.append(search_record)
AppendRecord ==
    /\ pc = "record"
    /\ memory' = Append(memory, NewRecord)
    /\ appended' = Append(appended, NewRecord)
    /\ clock' = clock + 1
    /\ pc' = "save_open"
    /\ UNCHANGED <<fileVars, csvVars, loopVars, exit_code, loaded, calls,
                   nonnull, sleeps, interrupts, partial,
                   file0, fetch_failed>>

\* line 119
SaveOpen ==
    /\ OpenW("save_open", "save_dump")
    /\ UNCHANGED <<memory, csvVars, loopVars, clock, exit_code, histVars>>

\* line 120
SaveDump ==
    /\ WriteChunk("save_dump", "saved")
    /\ UNCHANGED <<memory, csvVars, loopVars, clock, exit_code, histVars>>

\* line 121, then the handler returns and the process ends with status 0
Return ==
    /\ pc = "saved"
    /\ pc' = "done"
    /\ exit_code' = 0
    /\ UNCHANGED <<fileVars, memory, csvVars, loopVars, clock, histVars>>

\* ---------------------------------- lines 122-140: except KeyboardInterrupt
\* line 128: if total_rows > 0
HasRows(n) == n > 0

\* lines 123-135: the partial record is appended
HandlerAppend ==
    /\ pc = "h_check"
    /\ HasRows(total_rows)
    /\ memory' = Append(memory, NewRecord)
    /\ appended' = Append(appended, NewRecord)
    /\ clock' = clock + 1
    /\ pc' = "h_open"
    /\ UNCHANGED <<fileVars, csvVars, loopVars, exit_code, loaded, calls,
                   nonnull, sleeps, interrupts, partial,
                   file0, fetch_failed>>

\* lines 123-128 with total_rows = 0, then line 140
HandlerSkip ==
    /\ pc = "h_check"
    /\ ~HasRows(total_rows)
    /\ pc' = "done"
    /\ exit_code' = 0
    /\ UNCHANGED <<fileVars, memory, csvVars, loopVars, clock, histVars>>

\* line 136
HandlerOpen ==
    /\ OpenW("h_open", "h_dump")
    /\ UNCHANGED <<memory, csvVars, loopVars, clock, exit_code, histVars>>

\* line 137
HandlerDump ==
    /\ WriteChunk("h_dump", "h_exit")
    /\ UNCHANGED <<memory, csvVars, loopVars, clock, exit_code, histVars>>

\* lines 138-140: sys.exit(0)
HandlerExit ==
    /\ pc = "h_exit"
    /\ pc' = "done"
    /\ exit_code' = 0
    /\ UNCHANGED <<fileVars, memory, csvVars, loopVars, clock, histVars>>

\* ------------------------------------------------------ KeyboardInterrupt
BeforeTry == {"load", "boot_open", "boot_dump", "init_vars"}
InTry     == {"open_out", "fetch", "got", "rows", "count", "sleep", "record",
              "save_open", "save_dump", "saved"}
InHandler == {"h_check", "h_open", "h_dump", "h_exit"}

\* a page's rows are being written: some item of results is still to come,
\* or a row is written and not yet counted
MidPage == \/ pc = "count"
           \/ pc = "rows" /\ 1 < idx /\ idx <= Len(results)

\* raised inside the try block (line 66): the with statement closes the CSV
\* file and the except clause of line 122 runs
InterruptCaught ==
    /\ pc \in InTry
    /\ pc' = "h_check"
    /\ out_open' = FALSE
    /\ interrupts' = interrupts + 1
    /\ partial' = (partial \/ MidPage)
    /\ UNCHANGED <<fileVars, memory, output_file, loopVars, clock, exit_code,
                   loaded, calls, nonnull, sleeps, appended,
                   file0, fetch_failed>>

\* raised before the try block or inside the except clause: nothing catches
\* it, open files are closed and the interpreter ends the process
InterruptUncaught ==
    /\ pc \in BeforeTry \cup InHandler
    /\ pc' = "done"
    /\ exit_code' = 130
    /\ interrupts' = interrupts + 1
    /\ UNCHANGED <<fileVars, memory, csvVars, loopVars, clock, loaded, calls,
                   nonnull, sleeps, appended, partial,
                   file0, fetch_failed>>

Next ==
    \/ LoadMemory \/ BootOpen \/ BootDump \/ InitVars
    \/ OpenOutput \/ Fetch \/ FetchFails \/ BreakEmpty \/ WriteHeader
    \/ SkipNone \/ WriteRow \/ CountRow \/ BreakLast \/ NextPage \/ Pace
    \/ AppendRecord \/ SaveOpen \/ SaveDump \/ Return
    \/ HandlerAppend \/ HandlerSkip \/ HandlerOpen \/ HandlerDump \/ HandlerExit
    \/ InterruptCaught \/ InterruptUncaught

Spec == Init /\ [][Next]_vars

\* the run's steps are taken one after the other until the process ends;
\* no interrupt and no fetch failure is ever forced
Step ==
    \/ LoadMemory \/ BootOpen \/ BootDump \/ InitVars
    \/ OpenOutput \/ Fetch \/ BreakEmpty \/ WriteHeader
    \/ SkipNone \/ WriteRow \/ CountRow \/ BreakLast \/ NextPage \/ Pace
    \/ AppendRecord \/ SaveOpen \/ SaveDump \/ Return
    \/ HandlerAppend \/ HandlerSkip \/ HandlerOpen \/ HandlerDump \/ HandlerExit

\* the runs that find no memory.json or the history of one earlier run
FairInit == Init /\ memory_json \in {Absent, File(Dump(PriorHistory(1)))}

FairSpec == FairInit /\ [][Next]_vars /\ WF_vars(Step)

\* ------------------------------------------------------------ observations
\* data rows present in the CSV file
DataRows == Cardinality({i \in DOMAIN output_file.lines : output_file.lines[i] = "row"})

\* what a later load of memory.json would make of the file
Persisted ==
    IF memory_json.exists /\ Strip(memory_json.text) # <<>>
    THEN Parse(Strip(memory_json.text))
    ELSE [ok |-> FALSE, search |-> <<>>]

Exited == pc = "done"

\* the run completed: it returned from the handler without any interrupt
Completed == Exited /\ exit_code = 0 /\ interrupts = 0

\* the run ended by KeyboardInterrupt after the fetch loop had started
InterruptedInLoop == Exited /\ interrupts > 0 /\ calls # <<>>

\* the first fetch returned an empty page (and it was the only fetch)
FirstPageEmpty == calls = <<1>> /\ IsEmpty(results) /\ pc \notin {"fetch"} /\ exit_code # 1

\* the last fetch returned a non-empty page shorter than page_size
LastPageShort == calls # <<>> /\ 0 < Len(results) /\ Len(results) < page_size

\* C1: a run that completed, or was interrupted once after the fetch loop
\* started, and that counted at least one row, leaves in memory.json exactly
\* one record more than it loaded.
C1_ExactlyOneRecord ==
    ((Completed \/ InterruptedInLoop) /\ interrupts <= 1 /\ total_rows > 0)
        => (Persisted.ok /\ Len(Persisted.search) = Len(loaded) + 1)

\* C2: the amount of every record the run appended equals the number of
\* data rows in the run's CSV file.
C2_AmountIsRowsWritten ==
    \A i \in DOMAIN appended : appended[i].amount = DataRows

\* C3: when a run completes without interruption, the data rows of the CSV
\* file are as many as the non-null items of the pages fetched, and the
\* one record appended carries that number as amount.
C3_RowsEqualNonNullItems ==
    Completed =>
        /\ DataRows = nonnull
        /\ total_rows = nonnull
        /\ Len(appended) = 1
        /\ appended[1].amount = nonnull
        /\ memory = Append(loaded, appended[1])

C3_Witness ==
    /\ Completed
    /\ Len(calls) = 2
    /\ nonnull > page_size
    /\ \E i \in DOMAIN results : results[i] = None
    /\ DataRows = nonnull

\* C4: when the process has exited after writing memory.json, the file
\* deserializes into a valid Memory.
C4_FileValidAtExit ==
    (Exited /\ writes > 0) => Persisted.ok

\* C5: when the first fetch returns an empty page and the run is not
\* interrupted, no record is appended and the persisted history is the
\* loaded one.
C5_NoRecordForEmptySearch ==
    (Exited /\ FirstPageEmpty /\ interrupts = 0)
        => (appended = <<>> /\ Persisted.ok /\ Persisted.search = loaded)

\* C6: when the first fetch returns an empty page, at the end of the run the
\* CSV file holds exactly the header row or does not exist.
C6_HeaderOnlyOrNoFile ==
    (Exited /\ FirstPageEmpty)
        => (~output_file.exists \/ output_file.lines = <<"header">>)

\* C7: once a fetch has returned a non-empty page shorter than page_size, no
\* further fetch and no pacing sleep takes place.
C7_StopAfterShortPage ==
    [][LastPageShort => (calls' = calls /\ sleeps' = sleeps)]_vars

C7_Witness ==
    /\ Completed
    /\ LastPageShort
    /\ Len(results) = page_size - 1
    /\ \E i \in DOMAIN results : results[i] = None
    /\ calls = <<1, 2>>
    /\ sleeps = 1

\* C8: the except clause is never entered with a page partly written or with
\* a row written and not yet counted.
C8_NoInterruptMidPage == ~partial

\* C9: a run interrupted in its try block with no data row in the CSV file
\* leaves memory.json holding the history it loaded, without a new record.
C9_NoRecordWithoutRows ==
    (InterruptedInLoop /\ DataRows = 0)
        => (Persisted.ok /\ Persisted.search = loaded)

\* C10: a run that completed, or was interrupted with rows counted, starting
\* from the history of earlier runs, leaves the records of those runs in
\* memory.json, unchanged and in their order, in front of what it appended.
C10_HistoryExtended ==
    ((Completed \/ (InterruptedInLoop /\ total_rows > 0)) /\ loaded # <<>>)
        => /\ Persisted.ok
           /\ Len(Persisted.search) >= Len(loaded)
           /\ SubSeq(Persisted.search, 1, Len(loaded)) = loaded

\* --------------------------------------------- the files a run may find
BootstrapFiles == {Absent, File(<<>>), File(<<SPACE>>)}

NotJson == File(<<GARBAGE>>)

Truncated == File(<<LBRACE, KERNELS, SEARCH>>)

MissingFileName ==
    File(<<LBRACE, KERNELS, SEARCH,
           RecChunk([search_str |-> "term", datetime |-> 1, amount |-> 0]),
           RBRACKET, RBRACE, RBRACE>>)

CorruptFiles == {NotJson, Truncated, MissingFileName}

MissingKernels == File(<<LBRACE, RBRACE>>)

MissingSearch == File(<<LBRACE, KERNELS, RBRACE, RBRACE>>)

MissingAmount ==
    File(<<LBRACE, KERNELS, SEARCH,
           RecChunk([search_str |-> "term", datetime |-> 1, file_name |-> 1]),
           RBRACKET, RBRACE, RBRACE>>)

MissingFieldFiles == {MissingKernels, MissingSearch, MissingAmount}

\* the run is past the load of memory.json and has not fetched yet
PastLoad == pc \in {"init_vars", "open_out", "fetch"} /\ calls = <<>>

\* some fetch of the run returned a non-empty page
NonEmptyReceived == calls # <<>> /\ (Len(calls) > 1 \/ results # <<>>)

\* C11: when memory.json holds text that does not parse or validate, the run
\* ends with an error at the load: nothing is fetched, no CSV file is
\* created, no record is appended and memory.json keeps its content.
C11_CorruptHistoryIsFatal ==
    file0 \in CorruptFiles =>
        /\ memory_json = file0
        /\ writes = 0
        /\ calls = <<>>
        /\ ~output_file.exists
        /\ appended = <<>>
        /\ pc \in {"load", "done"}
        /\ pc = "done" => exit_code # 0

C11_Witness ==
    /\ file0 = Truncated
    /\ pc = "done"
    /\ exit_code = 1
    /\ memory_json = Truncated

\* C12: a document that lacks the kernels entry, its search list or a
\* record's amount is refused by the load: the run never gets past it.
C12_MissingFieldIsRefused ==
    file0 \in MissingFieldFiles =>
        /\ pc \in {"load", "done"}
        /\ pc = "done" => exit_code # 0

\* C13: past the load, a missing, empty or whitespace-only memory.json has
\* been written as the empty Memory document and the Memory is empty; a
\* valid document has given exactly its records and was not written; the
\* load of such files never ends in an error.
C13_LoadBootstrapsOrReads ==
    /\ (PastLoad /\ file0 \in BootstrapFiles) =>
          /\ memory = <<>>
          /\ loaded = <<>>
          /\ pc \in {"open_out", "fetch"} =>
                (memory_json = File(Dump(Memory)) /\ writes = 1)
    /\ \A n \in 0..MaxPrior :
          (/\ PastLoad
           /\ file0.text \in {Dump(PriorHistory(n)),
                              <<SPACE>> \o Dump(PriorHistory(n)) \o <<SPACE>>})
             => (memory = PriorHistory(n) /\ memory_json = file0 /\ writes = 0)
    /\ (file0 \in BootstrapFiles \/ file0 = File(Dump(PriorHistory(MaxPrior))))
          => ~(exit_code = 1 /\ calls = <<>>)

C13_Witness ==
    /\ pc = "fetch"
    /\ calls = <<>>
    /\ file0 = File(<<SPACE>>)
    /\ memory_json = File(Dump(Memory))

\* C14: a run that was interrupted ends with status 0.
C14_InterruptExitsZero ==
    (Exited /\ interrupts > 0) => exit_code = 0

\* C15: the CSV file is empty or holds the header followed by data rows
\* only; the header is there exactly when header_written is set, only after
\* a non-empty page was received, and always once the first non-empty page
\* was taken up, also a page of null items only.
C15_HeaderOnceBeforeRows ==
    LET lines == output_file.lines IN
    /\ lines # <<>> =>
          (lines[1] = "header" /\ \A i \in 2..Len(lines) : lines[i] = "row")
    /\ (lines # <<>>) = header_written
    /\ header_written => NonEmptyReceived
    /\ (NonEmptyReceived /\ interrupts = 0 /\ pc # "got") => header_written

C15_Witness ==
    /\ Completed
    /\ calls = <<1>>
    /\ results = <<None>>
    /\ output_file.lines = <<"header">>

\* C16: a run interrupted after the CSV file was opened leaves it closed and
\* starting with the header.
C16_InterruptedFileHasHeader ==
    (Exited /\ interrupts > 0 /\ output_file.exists)
        => (~out_open /\ output_file.lines # <<>>
            /\ output_file.lines[1] = "header")

\* C17: when a fetch raises an error the run is over at once with a
\* non-zero status: the failing call is the last one and is not repeated,
\* no record is appended, memory.json is as the load left it, and the CSV
\* file is closed with the rows of the earlier pages.
C17_FetchErrorEndsRun ==
    fetch_failed =>
        /\ pc = "done"
        /\ exit_code = 1
        /\ appended = <<>>
        /\ memory = loaded
        /\ memory_json = (IF file0 \in BootstrapFiles THEN File(Dump(Memory))
                          ELSE file0)
        /\ writes = (IF file0 \in BootstrapFiles THEN 1 ELSE 0)
        /\ ~out_open
        /\ DataRows = nonnull
        /\ calls = [i \in 1..(sleeps + 1) |-> i]

C17_Witness ==
    /\ fetch_failed
    /\ calls = <<1, 2>>
    /\ DataRows = page_size
    /\ output_file.lines[1] = "header"

\* C18: every fetch asks for the page after the one asked before, starting
\* at 1; a fetch after the first comes when the page before had at least
\* page_size items, all its rows are written and counted, and one sleep
\* was taken since; a sleep is taken only when none was since the last
\* fetch.
C18_SequentialPacedFetches ==
    [][/\ calls' # calls =>
            /\ calls' = Append(calls, Len(calls) + 1)
            /\ sleeps = Len(calls)
            /\ calls # <<>> =>
                  /\ Len(results) >= page_size
                  /\ idx > Len(results)
                  /\ total_rows = nonnull
                  /\ DataRows = nonnull
       /\ sleeps' # sleeps =>
            (sleeps' = sleeps + 1 /\ sleeps = Len(calls) - 1)]_vars

C18_Witness ==
    /\ pc = "got"
    /\ calls = <<1, 2>>
    /\ sleeps = 1
    /\ total_rows = page_size - 1

\* C19: a run that found a usable memory.json appends at most one record to
\* its Memory and opens memory.json for writing at most once.
C19_OneAppendOneWrite ==
    file0 \notin BootstrapFiles => (Len(appended) <= 1 /\ writes <= 1)

\* C20: when the fetch of page n returns an empty page or one shorter than
\* page_size, the run goes on to complete, unless it is interrupted, with n
\* fetches and n - 1 sleeps made and the non-null items of the pages as
\* the rows of the CSV file (an empty page adds no row).
C20_TerminatingPageCompletes ==
    \A n \in 1..MaxPages :
        (pc = "got" /\ Len(results) < page_size /\ Len(calls) = n)
          ~> \/ interrupts > 0
             \/ /\ Completed
                /\ Len(calls) = n
                /\ sleeps = n - 1
                /\ DataRows = nonnull
                /\ total_rows = nonnull

C20_Witness ==
    /\ Completed
    /\ calls = <<1, 2>>
    /\ IsEmpty(results)
    /\ sleeps = 1
    /\ DataRows = page_size

TypeOK ==
    /\ pc \in BeforeTry \cup InTry \cup InHandler \cup {"done"}
    /\ exit_code \in {-1, 0, 1, 130}
    /\ total_rows \in Nat
    /\ (pc = "done") = (exit_code # -1)
====
